---- MODULE Spec2Model ----
(***************************************************************************)
(* Model of the Dumpster-leads permit pipeline:                            *)
(*   scripts/run_daily.py     - browser pipeline (login, search, paging,   *)
(*                              record transform, fingerprint)             *)
(*   scripts/parse_permits.py - permit-type classifier and CSV scoring     *)
(* Strings are sequences of one-character strings so that strip, upper,    *)
(* whitespace collapsing and substring search are computed, not assumed.   *)
(***************************************************************************)
EXTENDS Integers, Sequences, FiniteSets, TLC

\* ------------------------------------------------------------------------
\* Bounds of the model
\* ------------------------------------------------------------------------
MaxWords == 2

MaxRows == 3

MaxPages == 3

MaxRecords == 2

MaxCalls == 3

\* ------------------------------------------------------------------------
\* Python string primitives
\* ------------------------------------------------------------------------
LowerLetters == <<"a","b","c","d","e","f","g","h","i","j","k","l","m",
                  "n","o","p","q","r","s","t","u","v","w","x","y","z">>

UpperLetters == <<"A","B","C","D","E","F","G","H","I","J","K","L","M",
                  "N","O","P","Q","R","S","T","U","V","W","X","Y","Z">>

Whitespace == {" ", "\t", "\n"}

\* str.upper() on one character
UpperChar(c) ==
    IF \E i \in 1..26 : LowerLetters[i] = c
    THEN UpperLetters[CHOOSE i \in 1..26 : LowerLetters[i] = c]
    ELSE c

\* str.lower() on one character (used to build mixed-case inputs)
LowerChar(c) ==
    IF \E i \in 1..26 : UpperLetters[i] = c
    THEN LowerLetters[CHOOSE i \in 1..26 : UpperLetters[i] = c]
    ELSE c

\* str.upper()
Upper(s) == [i \in 1..Len(s) |-> UpperChar(s[i])]

\* str.lower()
Lower(s) == [i \in 1..Len(s) |-> LowerChar(s[i])]

\* str.strip(): drop leading and trailing whitespace
Strip(s) ==
    LET NonWs == {i \in 1..Len(s) : s[i] \notin Whitespace}
    IN  IF NonWs = {} THEN <<>>
        ELSE LET lo == CHOOSE i \in NonWs : \A j \in NonWs : i <= j
                 hi == CHOOSE i \in NonWs : \A j \in NonWs : i >= j
             IN  SubSeq(s, lo, hi)

\* re.sub(r"\s+", " ", s): every maximal run of whitespace becomes one space
RECURSIVE CollapseWs(_)
CollapseWs(s) ==
    IF s = <<>> THEN <<>>
    ELSE IF Head(s) \in Whitespace
         THEN IF Len(s) > 1 /\ s[2] \in Whitespace
              THEN CollapseWs(Tail(s))
              ELSE <<" ">> \o CollapseWs(Tail(s))
         ELSE <<Head(s)>> \o CollapseWs(Tail(s))

\* `p in s` for strings
Contains(s, p) ==
    \E i \in 0..(Len(s) - Len(p)) : SubSeq(s, i + 1, i + Len(p)) = p

\* Python values handed to the classifier: None or a str
None == [isNone |-> TRUE, chars |-> <<>>]

Str(cs) == [isNone |-> FALSE, chars |-> cs]


\* ------------------------------------------------------------------------
\* parse_permits.py: norm, up, tier, score_permit_type
\* ------------------------------------------------------------------------
\* Outcome of a call that yields a str: returned chars, or an exception
Ok(cs) == [raised |-> FALSE, chars |-> cs]

Raise == [raised |-> TRUE, chars |-> <<>>]

\* norm without the None guard: s.strip() on None raises
norm_unguarded(s) ==
    IF s.isNone THEN Raise
    ELSE Ok(CollapseWs(Strip(s.chars)))

\* norm(s): None -> "", else strip and collapse whitespace runs
norm(s) ==
    IF s.isNone THEN Ok(<<>>)
    ELSE Ok(CollapseWs(Strip(s.chars)))

\* up without the change of case
up_keeps_case(s) == norm(s)

\* up(s): norm(s).upper(); an exception in norm propagates
up(s) ==
    LET n == norm(s)
    IN  IF n.raised THEN Raise ELSE Ok(Upper(n.chars))

\* tier with strict comparisons
tier_strict(score) ==
    IF score > 85 THEN "A"
    ELSE IF score > 70 THEN "B"
    ELSE IF score > 55 THEN "C"
    ELSE "D"

\* tier(score): threshold ladder
tier(score) ==
    IF score >= 85 THEN "A"
    ELSE IF score >= 70 THEN "B"
    ELSE IF score >= 55 THEN "C"
    ELSE "D"

\* The substrings score_permit_type looks for
P_DEMOLITION == <<"D","E","M","O","L","I","T","I","O","N">>

P_NEW_CONSTRUCTION == <<"N","E","W"," ","C","O","N","S","T","R","U","C","T","I","O","N">>

P_COMMERCIAL_INTERIOR_UPFIT == <<"C","O","M","M","E","R","C","I","A","L"," ","I","N","T","E","R","I","O","R"," ","U","P","F","I","T">>

P_UPFIT == <<"U","P","F","I","T">>

P_COMMERCIAL == <<"C","O","M","M","E","R","C","I","A","L">>

P_ADDITION == <<"A","D","D","I","T","I","O","N">>

P_ACCESSORY_STRUCTURE == <<"A","C","C","E","S","S","O","R","Y"," ","S","T","R","U","C","T","U","R","E">>

P_ACESSORY_STRUCTURE == <<"A","C","E","S","S","O","R","Y"," ","S","T","R","U","C","T","U","R","E">>

P_SWIMMING_POOL == <<"S","W","I","M","M","I","N","G"," ","P","O","O","L">>

P_EXTERIOR == <<"E","X","T","E","R","I","O","R">>

P_ALTER == <<"A","L","T","E","R">>

P_INTERIOR == <<"I","N","T","E","R","I","O","R">>

P_REROOF == <<"R","E","R","O","O","F">>

P_RE_ROOF == <<"R","E","-","R","O","O","F">>

P_MANUFACTURED_HOME == <<"M","A","N","U","F","A","C","T","U","R","E","D"," ","H","O","M","E">>

P_SET_UP == <<"S","E","T"," ","U","P">>

P_SETUP == <<"S","E","T","U","P">>

P_FEASIBILITY == <<"F","E","A","S","I","B","I","L","I","T","Y">>

P_STANDAL == <<"S","T","A","N","D","A","L">>

P_STANDALONE == <<"S","T","A","N","D","A","L","O","N","E">>

\* A returned (score, reason) pair, or an exception
Scored(s, r) == [raised |-> FALSE, score |-> s, reason |-> r]

ScoreRaised == [raised |-> TRUE, score |-> 0, reason |-> ""]

\* score_permit_type with the ADDITION rule tested before the upfit rule
score_permit_type_addition_first(pt_raw) ==
    LET u  == up(pt_raw)
        pt == u.chars
    IN  IF u.raised THEN ScoreRaised
        ELSE IF Contains(pt, P_DEMOLITION)
            THEN Scored(98, "Demolition = high debris")
        ELSE IF Contains(pt, P_NEW_CONSTRUCTION)
            THEN Scored(92, "New construction = high debris")
        ELSE IF Contains(pt, P_ADDITION)
            THEN Scored(84, "Addition = construction debris")
        ELSE IF Contains(pt, P_COMMERCIAL_INTERIOR_UPFIT)
                \/ (Contains(pt, P_UPFIT) /\ Contains(pt, P_COMMERCIAL))
            THEN Scored(86, "Commercial upfit = tear-out debris")
        ELSE IF Contains(pt, P_ACCESSORY_STRUCTURE)
                \/ Contains(pt, P_ACESSORY_STRUCTURE)
            THEN Scored(76, "Accessory structure = framing/debris")
        ELSE IF Contains(pt, P_SWIMMING_POOL)
            THEN Scored(78, "Pool install = excavation/packaging debris")
        ELSE IF Contains(pt, P_EXTERIOR) /\ Contains(pt, P_ALTER)
            THEN Scored(70, "Exterior alteration often creates debris (varies)")
        ELSE IF Contains(pt, P_INTERIOR) /\ Contains(pt, P_ALTER)
            THEN Scored(66, "Interior alteration often creates debris (varies)")
        ELSE IF Contains(pt, P_REROOF) \/ Contains(pt, P_RE_ROOF)
            THEN Scored(60, "Reroof sometimes uses dumpster (contractor-dependent)")
        ELSE IF Contains(pt, P_MANUFACTURED_HOME)
                /\ (Contains(pt, P_SET_UP) \/ Contains(pt, P_SETUP))
            THEN Scored(52, "Manufactured setup may create packaging/debris")
        ELSE IF Contains(pt, P_FEASIBILITY)
            THEN Scored(10, "Feasibility = planning, no debris")
        ELSE IF Contains(pt, P_STANDAL) \/ Contains(pt, P_STANDALONE)
            THEN Scored(25, "Standalone trade permit often no dumpster")
        ELSE Scored(40, "Unclassified permit type")

\* score_permit_type(pt_raw): the if-chain of the source, in source order
score_permit_type(pt_raw) ==
    LET u  == up(pt_raw)
        pt == u.chars
    IN  IF u.raised THEN ScoreRaised
        ELSE IF Contains(pt, P_DEMOLITION)
            THEN Scored(98, "Demolition = high debris")
        ELSE IF Contains(pt, P_NEW_CONSTRUCTION)
            THEN Scored(92, "New construction = high debris")
        ELSE IF Contains(pt, P_COMMERCIAL_INTERIOR_UPFIT)
                \/ (Contains(pt, P_UPFIT) /\ Contains(pt, P_COMMERCIAL))
            THEN Scored(86, "Commercial upfit = tear-out debris")
        ELSE IF Contains(pt, P_ADDITION)
            THEN Scored(84, "Addition = construction debris")
        ELSE IF Contains(pt, P_ACCESSORY_STRUCTURE)
                \/ Contains(pt, P_ACESSORY_STRUCTURE)
            THEN Scored(76, "Accessory structure = framing/debris")
        ELSE IF Contains(pt, P_SWIMMING_POOL)
            THEN Scored(78, "Pool install = excavation/packaging debris")
        ELSE IF Contains(pt, P_EXTERIOR) /\ Contains(pt, P_ALTER)
            THEN Scored(70, "Exterior alteration often creates debris (varies)")
        ELSE IF Contains(pt, P_INTERIOR) /\ Contains(pt, P_ALTER)
            THEN Scored(66, "Interior alteration often creates debris (varies)")
        ELSE IF Contains(pt, P_REROOF) \/ Contains(pt, P_RE_ROOF)
            THEN Scored(60, "Reroof sometimes uses dumpster (contractor-dependent)")
        ELSE IF Contains(pt, P_MANUFACTURED_HOME)
                /\ (Contains(pt, P_SET_UP) \/ Contains(pt, P_SETUP))
            THEN Scored(52, "Manufactured setup may create packaging/debris")
        ELSE IF Contains(pt, P_FEASIBILITY)
            THEN Scored(10, "Feasibility = planning, no debris")
        ELSE IF Contains(pt, P_STANDAL) \/ Contains(pt, P_STANDALONE)
            THEN Scored(25, "Standalone trade permit often no dumpster")
        ELSE Scored(40, "Unclassified permit type")

\* ------------------------------------------------------------------------
\* Inputs of the classifier: labels built from permit-type words
\* ------------------------------------------------------------------------
Vocabulary ==
    { <<"D","e","m","o","l","i","t","i","o","n">>,
      <<"N","e","w">>,
      <<"C","o","n","s","t","r","u","c","t","i","o","n">>,
      <<"C","o","m","m","e","r","c","i","a","l"," ","I","n","t","e","r","i","o","r"," ","U","p","f","i","t">>,
      <<"U","p","f","i","t">>,
      <<"C","o","m","m","e","r","c","i","a","l">>,
      <<"A","d","d","i","t","i","o","n">>,
      <<"A","c","c","e","s","s","o","r","y"," ","S","t","r","u","c","t","u","r","e">>,
      <<"A","c","e","s","s","o","r","y"," ","S","t","r","u","c","t","u","r","e">>,
      <<"S","w","i","m","m","i","n","g"," ","P","o","o","l">>,
      <<"E","x","t","e","r","i","o","r">>,
      <<"I","n","t","e","r","i","o","r">>,
      <<"A","l","t","e","r","a","t","i","o","n">>,
      <<"R","e","r","o","o","f">>,
      <<"R","e","-","R","o","o","f">>,
      <<"M","a","n","u","f","a","c","t","u","r","e","d"," ","H","o","m","e">>,
      <<"S","e","t"," ","U","p">>,
      <<"S","e","t","u","p">>,
      <<"F","e","a","s","i","b","i","l","i","t","y">>,
      <<"S","t","a","n","d","a","l","o","n","e">>,
      <<"E","l","e","c","t","r","i","c","a","l">>,
      <<"D","e","m","o","l","i","t","i","o","n"," ","a","n","d"," ","A","d","d","i","t","i","o","n">> }

\* Noise applied to a label: separator between words with padding around
\* the label, and letter case
Spacings == { [sep |-> <<" ">>, pad |-> <<>>],
              [sep |-> <<" ", "\t", " ">>, pad |-> <<" ", " ">>] }

CaseModes == {"asis", "upper", "lower"}

ApplyCase(mode, s) ==
    IF mode = "upper" THEN Upper(s)
    ELSE IF mode = "lower" THEN Lower(s)
    ELSE s

RECURSIVE JoinWords(_, _)
JoinWords(ws, sep) ==
    IF ws = <<>> THEN <<>>
    ELSE IF Len(ws) = 1 THEN ws[1]
    ELSE ws[1] \o sep \o JoinWords(Tail(ws), sep)

\* The labels of at most MaxWords words, with every noise
Labels ==
    { sp.pad \o ApplyCase(mode, JoinWords(ws, sp.sep)) \o sp.pad :
        ws \in UNION { [1..n -> Vocabulary] : n \in 0..MaxWords },
        sp \in Spacings, mode \in CaseModes }

ClassifierInputs == {None} \cup { Str(l) : l \in Labels }


\* ------------------------------------------------------------------------
\* parse_permits.py main(): score every row of a CSV, sort, write
\* ------------------------------------------------------------------------
K_PERMIT_TYPE_SP == <<"P","E","R","M","I","T"," ","T","Y","P","E">>

K_PERMIT_TYPE_US == <<"P","E","R","M","I","T","_","T","Y","P","E">>

\* The header lists of the input files
CsvHeaderSets ==
    { << <<"P","e","r","m","i","t"," ","N","o">>, <<"P","e","r","m","i","t"," ","T","y","p","e">> >>,
      << <<" ","p","e","r","m","i","t","_","t","y","p","e"," ">>, <<"S","t","a","t","u","s">> >>,
      << <<"P","e","r","m","i","t"," ","N","o">>, <<"S","t","a","t","u","s">> >> }

\* The Permit Type cells of the input files; None is the cell of a row
\* shorter than the header (csv.DictReader's restval)
CsvCells ==
    { None,
      Str(<<>>),
      Str(<<"D","e","m","o","l","i","t","i","o","n">>),
      Str(<<" ","D","E","M","O","L","I","T","I","O","N"," ">>),
      Str(<<"C","o","m","m","e","r","c","i","a","l"," ","U","p","f","i","t">>),
      Str(<<"E","x","t","e","r","i","o","r"," ","A","l","t","e","r","a","t","i","o","n">>),
      Str(<<"R","e","r","o","o","f">>),
      Str(<<"M","a","n","u","f","a","c","t","u","r","e","d"," ","H","o","m","e"," ","S","e","t","u","p">>) }

\* The rows of the input files: their Permit Type cell, and whether the
\* row has more cells than the header (csv.DictReader files those under
\* the key None, its restkey)
CsvRowKinds ==
    { [pt |-> c, extra |-> FALSE] : c \in CsvCells }
        \cup { [pt |-> Str(<<"D","e","m","o","l","i","t","i","o","n">>), extra |-> TRUE],
               [pt |-> Str(<<"R","e","r","o","o","f">>), extra |-> TRUE] }

\* The input files: at most MaxRows rows; `line` stands for the other
\* columns of a row (its position in the input), `pt` is its Permit Type
CsvInputs ==
    UNION { { [k \in 1..n |-> [line |-> k, pt |-> kinds[k].pt,
                               extra |-> kinds[k].extra]] :
                kinds \in [1..n -> CsvRowKinds] } : n \in 0..MaxRows }

\* Lines 95-99: the first header h with up(h) in (PERMIT TYPE, PERMIT_TYPE);
\* 0 stands for pt_col = None
FindPtCol(headers) ==
    LET hits == { k \in 1..Len(headers) :
                    up(Str(headers[k])).chars
                        \in {K_PERMIT_TYPE_SP, K_PERMIT_TYPE_US} }
    IN  IF hits = {} THEN 0
        ELSE CHOOSE k \in hits : \A j \in hits : k <= j

\* list.sort(key=score, reverse=True): stable, descending.  InsertDesc puts
\* a row after every row of greater or equal score.
RECURSIVE InsertDesc(_, _)
InsertDesc(sorted, r) ==
    IF sorted = <<>> THEN <<r>>
    ELSE IF Head(sorted).dumpster_score >= r.dumpster_score
         THEN <<Head(sorted)>> \o InsertDesc(Tail(sorted), r)
         ELSE <<r>> \o sorted

RECURSIVE SortByScoreDesc(_)
SortByScoreDesc(rows) ==
    IF rows = <<>> THEN <<>>
    ELSE InsertDesc(SortByScoreDesc(SubSeq(rows, 1, Len(rows) - 1)),
                    rows[Len(rows)])

\* Lines 109-121: the scored copy of one row
ScoredRow(r) ==
    LET sr == score_permit_type(r.pt)
    IN  [line |-> r.line, pt |-> r.pt, extra |-> r.extra,
         dumpster_score |-> sr.score,
         dumpster_tier |-> tier(sr.score),
         dumpster_reason |-> sr.reason]

Tiers == {"A", "B", "C", "D"}

\* Lines 129-132: csv.DictWriter.writerow raises ValueError on a row with a
\* key that is not in out_headers, which the key None of a row with extra
\* cells is; the rows before it are written
RECURSIVE WrittenRows(_)
WrittenRows(rows) ==
    IF rows = <<>> \/ Head(rows).extra THEN <<>>
    ELSE <<Head(rows)>> \o WrittenRows(Tail(rows))


\* ------------------------------------------------------------------------
\* run_daily.py: fp, debris_signal and the record transform of main
\* ------------------------------------------------------------------------
\* A row is a dict: a function from column names to cell strings.
\* dict.get(k): the value, or None when the key is absent
Get(r, k) == IF k \in DOMAIN r THEN Str(r[k]) ELSE None

\* Python truthiness of None / str
Truthy(v) == ~v.isNone /\ v.chars # <<>>

\* Python `a or b`
OrElse(a, b) == IF Truthy(a) THEN a ELSE b

\* hashlib.sha256(b).hexdigest(): the digest is not computed; it is an
\* uninterpreted function of the hashed string, so digests are equal
\* exactly when the hashed strings are
Sha256(base) == [sha256 |-> base]

Bar == <<"|">>

\* fp without .upper()
fp_base_no_upper(issued_date, permit_no, address, permit_type, status) ==
    issued_date \o Bar \o permit_no \o Bar \o address \o Bar
        \o permit_type \o Bar \o status

\* fp, line 22: the hashed string
fp_base(issued_date, permit_no, address, permit_type, status) ==
    Upper(issued_date \o Bar \o permit_no \o Bar \o address \o Bar
            \o permit_type \o Bar \o status)

\* fp, lines 21-23
fp(issued_date, permit_no, address, permit_type, status) ==
    Sha256(fp_base(issued_date, permit_no, address, permit_type, status))

\* debris_signal, line 287: the keywords
DebrisKeywords ==
    << <<"D","E","M","O">>,
       <<"D","E","M","O","L">>,
       <<"T","E","A","R">>,
       <<"R","O","O","F">>,
       <<"R","E","M","O","D","E","L">>,
       <<"R","E","N","O","V">>,
       <<"A","D","D","I","T","I","O","N">>,
       <<"C","O","N","C","R","E","T","E">>,
       <<"R","E","M","O","V","E">>,
       <<"D","U","M","P","S","T","E","R">> >>

\* debris_signal, lines 284-292
debris_signal(desc) ==
    LET d    == Upper(OrElse(desc, Str(<<>>)).chars)
        IsHit(k) == Contains(d, k)
        hits == SelectSeq(DebrisKeywords, IsHit)
    IN  IF hits = <<>> THEN <<>>
        ELSE << [name |-> "debris_generation", confidence |-> "0.7",
                 evidence |-> SubSeq(hits, 1, IF Len(hits) < 6 THEN Len(hits) ELSE 6)] >>

\* main, lines 318-323: the column names looked up in a row
K_PERMIT_NO == <<"P","E","R","M","I","T","_","N","O">>

K_Permit_No == <<"P","e","r","m","i","t"," ","N","o">>

K_PERMIT == <<"P","E","R","M","I","T">>

K_ISSUED == <<"I","S","S","U","E","D">>

K_Permit_Type == <<"P","e","r","m","i","t"," ","T","y","p","e">>

K_PERMIT_TYPE == <<"P","E","R","M","I","T"," ","T","Y","P","E">>

K_STATUS == <<"S","T","A","T","U","S">>

K_SITE_ADDR == <<"S","I","T","E","_","A","D","D","R">>

K_SITE_ADDR_SP == <<"S","I","T","E"," ","A","D","D","R">>

K_SITE_ADDR_TRAIL == <<"S","I","T","E","_","A","D","D","R"," ">>

K_SITE_APN == <<"S","I","T","E","_","A","P","N">>

\* main, lines 318-348: the record built from one row r, for the queried
\* date issued_date, at time now
BuildRecord(r, issued_date, now) ==
    LET permit_no   == OrElse(Get(r, K_PERMIT_NO),
                         OrElse(Get(r, K_Permit_No),
                           OrElse(Get(r, K_PERMIT), Str(<<>>))))
        issued      == OrElse(Get(r, K_ISSUED), Str(issued_date))
        permit_type == OrElse(Get(r, K_Permit_Type),
                         OrElse(Get(r, K_PERMIT_TYPE), Str(<<>>)))
        status      == OrElse(Get(r, K_STATUS), Str(<<>>))
        site_addr   == OrElse(Get(r, K_SITE_ADDR),
                         OrElse(Get(r, K_SITE_ADDR_SP),
                           OrElse(Get(r, K_SITE_ADDR_TRAIL), Str(<<>>))))
        site_apn    == OrElse(Get(r, K_SITE_APN), Str(<<>>))
        desc        == permit_type
    IN  [source |-> "etrakit",
         jurisdiction |-> "Greenville County",
         issued_date |-> issued,
         project |-> [address |-> site_addr,
                      description |-> desc,
                      permit_type |-> permit_type,
                      value |-> None,
                      site_apn |-> site_apn,
                      permit_no |-> permit_no,
                      status |-> status],
         signals |-> debris_signal(desc),
         fingerprint |-> fp(issued.chars, permit_no.chars, site_addr.chars,
                            permit_type.chars, status.chars),
         contractor |-> [name |-> None, phone |-> None, license |-> None],
         owner |-> [name |-> None, address |-> None],
         source_url |-> "SEARCH_URL",
         scraped_at |-> now,
         confidence |-> "0.75"]


\* ------------------------------------------------------------------------
\* run_daily.py: the portal as the pipeline sees it
\* ------------------------------------------------------------------------
\* Header cells (th texts) of the results grid
HeaderSets ==
    { << <<" ","P","E","R","M","I","T","_","N","O"," ">>, <<"P","e","r","m","i","t"," ","T","y","p","e">>, <<"S","T","A","T","U","S">> >>,
      << >> }

\* Data rows (td texts) of the results grid; the last one has fewer cells
\* than the header
RawRow1 == << <<"P","1">>, <<" ","D","e","m","o","l","i","t","i","o","n">>, <<"I","S","S","U","E","D">> >>

RawRow2 == << <<"P","2">>, <<"R","e"," "," ","r","o","o","f">>, <<"I","S","S","U","E","D">> >>

RawRowShort == << <<"P","3">>, <<"A","d","d","i","t","i","o","n">> >>

\* A page of the result set: the data rows of the grid's first table
PageContents ==
    { << >>, <<RawRow1>>, <<RawRowShort>>, <<RawRow2, RawRow1>> }

\* A result set: at most MaxPages pages
ResultSets == UNION { [1..n -> PageContents] : n \in 1..MaxPages }

\* What the three locators of click_next_if_available (a.rgPageNext,
\* a[title*='Next'], input[title*='Next'], all :visible) find first:
\* "none" (no visible match), or a visible match whose class is "enabled"
\* or "disabled"
PagerStates ==
    { <<"enabled", "none", "none">>,
      <<"none", "enabled", "none">>,
      <<"none", "none", "enabled">>,
      <<"disabled", "enabled", "none">>,
      <<"none", "none", "none">> }

LastPagerStates ==
    { <<"none", "none", "none">>,
      <<"disabled", "none", "none">>,
      <<"enabled", "none", "none">> }

\* What a click on the advance control does: the grid shows the next page,
\* the grid stays as it is, the wait for the grid times out, or the click
\* itself fails
ClickEffects == {"advance", "stall", "timeout", "click_error"}

\* f"col_{j}"
DigitChars == <<"0","1","2","3","4","5","6","7","8","9">>

ColKey(j) == <<"c","o","l","_">> \o <<DigitChars[j + 1]>>

\* " ".join(t.split())
NormCell(t) == CollapseWs(Strip(t))

\* parse_grid_rows, line 159: stripped, non-empty headers
ParseHeaders(ths) ==
    LET stripped == [i \in 1..Len(ths) |-> Strip(ths[i])]
        NonEmpty(h) == h # <<>>
    IN  SelectSeq(stripped, NonEmpty)

\* parse_grid_rows, lines 165-170: the dict of one row
ParseRow(headers, raw_tds) ==
    LET tds == [i \in 1..Len(raw_tds) |-> NormCell(raw_tds[i])]
    IN  IF headers # <<>> /\ Len(tds) >= Len(headers)
        THEN [k \in {headers[j] : j \in 1..Len(headers)} |->
                tds[CHOOSE j \in 1..Len(headers) :
                      /\ headers[j] = k
                      /\ \A m \in 1..Len(headers) : headers[m] = k => m <= j]]
        ELSE [k \in {ColKey(j) : j \in 0..(Len(tds) - 1)} |->
                tds[CHOOSE j \in 1..Len(tds) : ColKey(j - 1) = k]]

\* parse_grid_rows, lines 152-172
parse_grid_rows(ths, trs) ==
    LET headers == ParseHeaders(ths)
    IN  [headers |-> headers,
         rows |-> [i \in 1..Len(trs) |-> ParseRow(headers, trs[i])]]

\* json.dumps(rows[0], sort_keys=True) if rows else "": a canonical
\* serialisation, equal exactly when the first rows are equal
RowSig(rows) ==
    IF rows = <<>> THEN [empty |-> TRUE, row |-> <<>>]
    ELSE [empty |-> FALSE, row |-> rows[1]]

\* click_next_if_available, lines 186-196: the first locator with a match
FirstCandidate(pager_state) ==
    IF \A k \in 1..3 : pager_state[k] = "none" THEN "none"
    ELSE pager_state[CHOOSE k \in 1..3 :
            /\ pager_state[k] # "none"
            /\ \A j \in 1..(k - 1) : pager_state[j] = "none"]

\* click_next_if_available reporting an advance whenever the grid has rows
\* after the click, without comparing the first row with first_row_sig
click_next_if_available_any_rows(pages, ths, cur, pager_state, effect, first_row_sig) ==
    LET btn == FirstCandidate(pager_state)
        nxt == IF effect = "advance" /\ cur < Len(pages) THEN cur + 1 ELSE cur
        rows == parse_grid_rows(ths, pages[nxt]).rows
    IN  IF btn \in {"none", "disabled"}
        THEN [clicked |-> FALSE, page |-> cur, result |-> "false"]
        ELSE IF effect = "click_error"
        THEN [clicked |-> TRUE, page |-> cur, result |-> "raised"]
        ELSE IF effect = "timeout"
        THEN [clicked |-> TRUE, page |-> cur, result |-> "false"]
        ELSE [clicked |-> TRUE, page |-> nxt,
              result |-> IF rows # <<>> THEN "true" ELSE "false"]

\* click_next_if_available, lines 174-220, on grid page `cur` of the result
\* set `pages`: whether it clicked, the page shown afterwards, and the
\* outcome: "raised" (line 206 is outside the try), TRUE or FALSE
click_next_if_available(pages, ths, cur, pager_state, effect, first_row_sig) ==
    LET btn == FirstCandidate(pager_state)
        nxt == IF effect = "advance" /\ cur < Len(pages) THEN cur + 1 ELSE cur
        rows == parse_grid_rows(ths, pages[nxt]).rows
    IN  IF btn = "none"
        THEN [clicked |-> FALSE, page |-> cur, result |-> "false"]
        ELSE IF btn = "disabled"
        THEN [clicked |-> FALSE, page |-> cur, result |-> "false"]
        ELSE IF effect = "click_error"
        THEN [clicked |-> TRUE, page |-> cur, result |-> "raised"]
        ELSE IF effect = "timeout"
        THEN [clicked |-> TRUE, page |-> cur, result |-> "false"]
        ELSE IF rows = <<>>
        THEN [clicked |-> TRUE, page |-> nxt, result |-> "false"]
        ELSE [clicked |-> TRUE, page |-> nxt,
              result |-> IF RowSig(rows) # first_row_sig THEN "true" ELSE "false"]

\* run_search retrying the advance until the grid changes
MoreAdvances_until_advanced(advanced, calls) == ~advanced

\* run_search, lines 273-282: click_next_if_available is called once, in
\* an `if`, not in a loop: no further call follows, whatever it returned
MoreAdvances(advanced, calls) == FALSE

\* ------------------------------------------------------------------------
\* run_daily.py: login and run_search, as functions of what the portal does
\* ------------------------------------------------------------------------
Failure(kind, taken) == [kind |-> kind, snaps_before |-> Len(taken)]

NoErr == [kind |-> "none", snaps_before |-> 0]

\* What the file system and the page do during one call of snap: whether
\* os.makedirs, page.screenshot, page.content and the write of the HTML
\* file succeed
SnapEnvs ==
    [makedirs : BOOLEAN, screenshot : BOOLEAN, content : BOOLEAN,
     write : BOOLEAN]

\* snap, lines 25-36: os.makedirs (line 26) is before the first try, so its
\* exception leaves snap; the failures of the other steps are swallowed.
\* `snaps` is the list of calls made, `png` and `html` tell which of the
\* two files were written
snap(taken, name, e) ==
    [raised |-> ~e.makedirs,
     snaps  |-> Append(taken, name),
     png    |-> e.makedirs /\ e.screenshot,
     html   |-> e.makedirs /\ e.content /\ e.write]

\* Whether a call of snap can return normally
SnapReturns(taken, name) ==
    { e \in SnapEnvs : ~snap(taken, name, e).raised } # {}

\* What the portal does during login: whether each navigation and each
\* control interaction succeeds, what it shows after the submit, and
\* whether wait_for_url sees the search URL before its timeout
LoginEnvs ==
    [goto_ok : BOOLEAN, user_in : BOOLEAN, pass_in : BOOLEAN, btn : BOOLEAN,
     marker : {"positive", "negative", "absent"},
     landed : BOOLEAN, goto_search_ok : BOOLEAN,
     snap00 : SnapEnvs, snap01 : SnapEnvs]

\* login, lines 69-107: the snaps taken, the exception raised (if any),
\* what the portal showed after the submit, and the view reached
login(e, taken) ==
    LET r00 == snap(taken, "00_login_loaded", e.snap00)
        s1  == r00.snaps
        r01 == snap(s1, "01_after_login", e.snap01)
    IN  IF ~e.goto_ok
        THEN [snaps |-> taken, err |-> Failure("navigation", taken),
              marker |-> "unset", view |-> "blank"]
        ELSE IF r00.raised
        THEN [snaps |-> s1, err |-> Failure("snap", taken),
              marker |-> "unset", view |-> "login"]
        ELSE IF ~e.user_in \/ ~e.pass_in \/ ~e.btn
        THEN [snaps |-> s1, err |-> Failure("login_control", s1),
              marker |-> "unset", view |-> "login"]
        ELSE IF ~e.landed /\ ~e.goto_search_ok
        THEN [snaps |-> s1, err |-> Failure("navigation", s1),
              marker |-> e.marker, view |-> "login"]
        ELSE IF r01.raised
        THEN [snaps |-> r01.snaps, err |-> Failure("snap", s1),
              marker |-> e.marker, view |-> "search"]
        ELSE [snaps |-> r01.snaps, err |-> NoErr,
              marker |-> e.marker, view |-> "search"]

\* The first step of run_search that fails, lines 223-265
SearchStages ==
    {"goto", "snap10", "dropdown", "select", "value_in", "button", "snap11",
     "grid", "snap12"}

\* The stages that are calls of snap with a fixed name, lines 225, 264, 266
SnapStages == {"snap10", "snap11", "snap12"}

\* run_search, lines 223-266, failing at `stage`: the snaps taken and the
\* exception raised. `e` is what the file system and the page do during the
\* snap call of that stage: the call that is the stage itself, or the one
\* made on the failure path of lines 230 and 235, whose exception leaves
\* run_search in place of the RuntimeError of lines 231 and 236
run_search_fails(stage, taken, e) ==
    LET s10 == Append(taken, "10_search_page_loaded")
        s11 == Append(s10, "11_after_search_click")
        s12 == Append(s11, "12_results_page1")
        OnFailurePath(name, kind) ==
            LET r == snap(s10, name, e)
            IN  [snaps |-> r.snaps,
                 err |-> IF r.raised THEN Failure("snap", s10)
                         ELSE Failure(kind, s10)]
    IN  IF stage = "goto"
        THEN [snaps |-> taken, err |-> Failure("navigation", taken)]
        ELSE IF stage = "snap10"
        THEN [snaps |-> s10, err |-> Failure("snap", taken)]
        ELSE IF stage = "dropdown"
        THEN OnFailurePath("90_failed_no_dropdown", "no_dropdown")
        ELSE IF stage = "select"
        THEN OnFailurePath("90_failed_select_issued", "select_issued")
        ELSE IF stage \in {"value_in", "button"}
        THEN [snaps |-> s10, err |-> Failure("search_control", s10)]
        ELSE IF stage = "snap11"
        THEN [snaps |-> s11, err |-> Failure("snap", s10)]
        ELSE IF stage = "grid"
        THEN [snaps |-> s11, err |-> Failure("no_grid", s11)]
        ELSE [snaps |-> s12, err |-> Failure("snap", s11)]

\* The result sets a search can produce, with their pagers
Portals ==
    [ths : HeaderSets, pages : ResultSets, pager : PagerStates,
     last_pager : LastPagerStates, click_effect : ClickEffects]

\* The pager of page k: that of the last page differs from the others'
PagerAt(p, k) == IF k < Len(p.pages) THEN p.pager ELSE p.last_pager

\* The values of the credential variables: unset or blank, or set
UserValues == { <<>>, <<"u">> }

PassValues == { <<" ">>, <<"p">> }

QueryDates == { <<"0","1","/","0","3","/","2","0","2","4">> }

\* ------------------------------------------------------------------------
\* Rows handed to the record transform of main
\* ------------------------------------------------------------------------
PermitValues == { <<"P","-","1","0","0">>, <<"p","-","1","0","0">>, <<"A","|","B">>, <<"A">> }

AddrValues == { <<"1","0","0"," ","M","a","i","n"," ","S","t">>, <<"C">>, <<"B","|","C">> }

ApnValues == { <<"1","2","3","-","4","5">>, <<"9","9","9">> }

\* A row of a grid with the columns PERMIT_NO, ISSUED, Permit Type, STATUS,
\* SITE_ADDR, SITE_APN
FullRow(permit, addr, apn) ==
    [k \in {K_PERMIT_NO, K_ISSUED, K_Permit_Type, K_STATUS, K_SITE_ADDR,
            K_SITE_APN} |->
        IF k = K_PERMIT_NO THEN permit
        ELSE IF k = K_ISSUED THEN <<"0","1","/","0","2","/","2","0","2","4">>
        ELSE IF k = K_Permit_Type THEN <<"D","E","M","O","L","I","T","I","O","N">>
        ELSE IF k = K_STATUS THEN <<"I","S","S","U","E","D">>
        ELSE IF k = K_SITE_ADDR THEN addr
        ELSE apn]

\* A row of a grid that has only the columns PERMIT_NO and STATUS
SparseRow ==
    [k \in {K_PERMIT_NO, K_STATUS} |->
        IF k = K_PERMIT_NO THEN <<"P","-","1","0","0">> ELSE <<"I","s","s","u","e","d">>]

TransformRows ==
    { FullRow(p, a, n) : p \in PermitValues, a \in AddrValues, n \in ApnValues }
        \cup {SparseRow}

TransformInputs ==
    UNION { [1..n -> TransformRows] : n \in 0..MaxRecords }

VARIABLES
    c_pc,       \* classifier call: "idle", "called", "returned"
    c_in,       \* argument pt_raw of score_permit_type
    c_out,      \* its outcome: (score, reason) or an exception
    csv_pc,     \* parse_permits main: "idle", "start", "loop", "done", "exit", "raised"
    csv_found,  \* whether the input file exists
    csv_headers,\* reader.fieldnames
    csv_rows,   \* rows read from the input
    csv_i,      \* number of rows already scored
    out_rows,   \* out_rows
    tier_counts,\* tier_counts
    type_counts,\* type_counts, keyed by up(pt)
    csv_file,   \* rows written to the output file
    pc,         \* run_daily main: the statement about to run
    ETRAKIT_USER, \* os.environ ETRAKIT_USER ("" when unset)
    ETRAKIT_PASS, \* os.environ ETRAKIT_PASS ("" when unset)
    issued_date,\* the queried date, local_yesterday_mmddyyyy()
    playwright, \* the async_playwright context: "none", "running", "stopped"
    browser,    \* "none", "open" (launched), "closed" (browser.close() ran)
    view,       \* what the page shows: "blank", "login", "search", "results"
    auth_marker,\* what the portal showed after the credentials were
                \* submitted: "positive", "negative", "absent"; "unset" before
    snaps,      \* names passed to snap(), in call order
    err,        \* the exception in flight: its kind, and Len(snaps) when the
                \* failure was detected
    portal,     \* the result set the search produced and its pager
    cur_page,   \* the page of the result set the grid shows
    headers,    \* headers parsed from the grid
    rows_all,   \* run_search's rows_all
    sig1,       \* run_search's sig1
    calls,      \* calls of click_next_if_available made
    clicks,     \* clicks on the advance control made
    rows,       \* main's rows, as returned by run_search
    out,        \* main's out
    clock,      \* the time now_iso() reads
    out_file    \* the records written to data/<run_date>.json

classifyVars == <<c_pc, c_in, c_out>>

csvVars == <<csv_pc, csv_found, csv_headers, csv_rows, csv_i, out_rows,
             tier_counts, type_counts, csv_file>>

pipeVars == <<pc, ETRAKIT_USER, ETRAKIT_PASS, issued_date, playwright, browser, view,
              auth_marker, snaps, err, portal, cur_page, headers, rows_all,
              sig1, calls, clicks, rows, out, clock, out_file>>

vars == <<classifyVars, csvVars, pipeVars>>

NoScore == [raised |-> FALSE, score |-> -1, reason |-> ""]

ClassifyIdle == c_pc = "idle" /\ c_in = None /\ c_out = NoScore


NoPortal == [ths |-> <<>>, pages |-> <<>>,
             pager |-> <<"none", "none", "none">>,
             last_pager |-> <<"none", "none", "none">>,
             click_effect |-> "stall"]

NoSig == [empty |-> TRUE, row |-> <<>>]

NoFile == [written |-> FALSE, records |-> <<>>]

\* The state of run_daily main before its first statement, with the
\* environment variables left open
PipeFresh ==
    /\ issued_date = <<>> /\ playwright = "none" /\ browser = "none"
    /\ view = "blank" /\ auth_marker = "unset" /\ snaps = <<>>
    /\ err = NoErr /\ portal = NoPortal /\ cur_page = 0
    /\ headers = <<>> /\ rows_all = <<>> /\ sig1 = NoSig
    /\ calls = 0 /\ clicks = 0 /\ rows = <<>> /\ out = <<>>
    /\ clock = 0 /\ out_file = NoFile

PipeIdle ==
    pc = "idle" /\ ETRAKIT_USER = <<>> /\ ETRAKIT_PASS = <<>> /\ PipeFresh

CsvIdle ==
    /\ csv_pc = "idle" /\ csv_found = FALSE /\ csv_headers = <<>>
    /\ csv_rows = <<>> /\ csv_i = 0 /\ out_rows = <<>>
    /\ tier_counts = [t \in Tiers |-> 0] /\ type_counts = <<>>
    /\ csv_file = <<>>

\* ------------------------------------------------------------------------
\* Specification of the classifier: one call of score_permit_type
\* ------------------------------------------------------------------------
InitClassify ==
    /\ c_pc = "called"
    /\ c_in \in ClassifierInputs
    /\ c_out = NoScore
    /\ CsvIdle /\ PipeIdle

Classify ==
    /\ c_pc = "called"
    /\ c_out' = score_permit_type(c_in)
    /\ c_pc' = "returned"
    /\ UNCHANGED <<c_in, csvVars, pipeVars>>

NextClassify == Classify

SpecClassify == InitClassify /\ [][NextClassify]_vars

\* ------------------------------------------------------------------------
\* Specification of parse_permits main
\* ------------------------------------------------------------------------
InitCsv ==
    /\ csv_pc = "start"
    /\ csv_found \in BOOLEAN
    /\ csv_headers \in CsvHeaderSets
    /\ csv_rows \in CsvInputs
    /\ csv_i = 0 /\ out_rows = <<>>
    /\ tier_counts = [t \in Tiers |-> 0] /\ type_counts = <<>>
    /\ csv_file = <<>>
    /\ ClassifyIdle /\ PipeIdle

\* Lines 84-106: find the input, read it, locate the Permit Type column;
\* each failure is a SystemExit
CsvOpen ==
    /\ csv_pc = "start"
    /\ csv_pc' = IF ~csv_found \/ csv_rows = <<>> \/ FindPtCol(csv_headers) = 0
                 THEN "exit" ELSE "loop"
    /\ UNCHANGED <<csv_found, csv_headers, csv_rows, csv_i, out_rows,
                   tier_counts, type_counts, csv_file, classifyVars, pipeVars>>

\* Lines 108-121: one iteration of the scoring loop
CsvScoreRow ==
    /\ csv_pc = "loop"
    /\ csv_i < Len(csv_rows)
    /\ LET r  == csv_rows[csv_i + 1]
           rr == ScoredRow(r)
           type_key == up(r.pt).chars
       IN  /\ out_rows' = Append(out_rows, rr)
           /\ tier_counts' = [tier_counts EXCEPT ![rr.dumpster_tier] = @ + 1]
           /\ type_counts' =
                IF type_key \in DOMAIN type_counts
                THEN [type_counts EXCEPT ![type_key] = @ + 1]
                ELSE [k \in DOMAIN type_counts \cup {type_key} |->
                        IF k = type_key THEN 1 ELSE type_counts[k]]
    /\ csv_i' = csv_i + 1
    /\ UNCHANGED <<csv_pc, csv_found, csv_headers, csv_rows, csv_file,
                   classifyVars, pipeVars>>

\* Lines 123-132: after the loop, sort out_rows and write them, up to the
\* first row that writerow rejects
CsvSortWrite ==
    /\ csv_pc = "loop"
    /\ csv_i = Len(csv_rows)
    /\ out_rows' = SortByScoreDesc(out_rows)
    /\ csv_file' = WrittenRows(out_rows')
    /\ csv_pc' = IF csv_file' = out_rows' THEN "done" ELSE "raised"
    /\ UNCHANGED <<csv_found, csv_headers, csv_rows, csv_i, tier_counts,
                   type_counts, classifyVars, pipeVars>>

NextCsv == CsvOpen \/ CsvScoreRow \/ CsvSortWrite

SpecCsv == InitCsv /\ [][NextCsv]_vars

\* ------------------------------------------------------------------------
\* Specification of run_daily main
\* ------------------------------------------------------------------------
Init ==
    /\ pc = "start"
    /\ ETRAKIT_USER \in UserValues
    /\ ETRAKIT_PASS \in PassValues
    /\ PipeFresh
    /\ ClassifyIdle /\ CsvIdle

searchVars == <<portal, cur_page, headers, rows_all, sig1, calls, clicks>>

recordVars == <<rows, out, clock, out_file>>

envVars == <<ETRAKIT_USER, ETRAKIT_PASS>>

otherVars == <<classifyVars, csvVars>>

\* The check of main accepting a blank password
missing_credentials_user_only(env_user, env_pass) ==
    Strip(env_user) = <<>>

\* main, lines 295-297: `not user or not pw`, after .strip()
missing_credentials(env_user, env_pass) ==
    Strip(env_user) = <<>> \/ Strip(env_pass) = <<>>

\* main, lines 295-302: read the credentials, fail on a blank one
Main_Config ==
    /\ pc = "start"
    /\ IF missing_credentials(ETRAKIT_USER, ETRAKIT_PASS)
       THEN /\ pc' = "raised"
            /\ err' = Failure("config", snaps)
            /\ UNCHANGED issued_date
       ELSE /\ pc' = "launch"
            /\ issued_date' \in QueryDates
            /\ UNCHANGED err
    /\ UNCHANGED <<envVars, playwright, browser, view, auth_marker, snaps,
                   searchVars, recordVars, otherVars>>

\* main, lines 304-305: enter the playwright context, launch the browser
Main_Launch ==
    /\ pc = "launch"
    /\ playwright' = "running"
    /\ \E ok \in BOOLEAN :
         IF ok
         THEN browser' = "open" /\ pc' = "new_page" /\ UNCHANGED err
         ELSE browser' = browser /\ pc' = "exit_context"
              /\ err' = Failure("launch", snaps)
    /\ UNCHANGED <<envVars, issued_date, view, auth_marker, snaps,
                   searchVars, recordVars, otherVars>>

\* main, line 306: open the page; the statement is before the try
Main_NewPage ==
    /\ pc = "new_page"
    /\ \E ok \in BOOLEAN :
         IF ok
         THEN pc' = "login" /\ UNCHANGED err
         ELSE pc' = "exit_context" /\ err' = Failure("new_page", snaps)
    /\ UNCHANGED <<envVars, issued_date, playwright, browser, view,
                   auth_marker, snaps, searchVars, recordVars, otherVars>>

\* main, line 309: login(page, user, pw), inside the try
Main_Login ==
    /\ pc = "login"
    /\ \E e \in LoginEnvs :
         LET res == login(e, snaps)
         IN  /\ snaps' = res.snaps
             /\ err' = res.err
             /\ auth_marker' = res.marker
             /\ view' = res.view
             /\ pc' = IF res.err.kind = "none" THEN "rs_open" ELSE "finally"
    /\ UNCHANGED <<envVars, issued_date, playwright, browser, searchVars,
                   recordVars, otherVars>>

\* run_search, lines 223-271: reach the search view, submit the search,
\* wait for the grid and parse its first page
RunSearch_Open ==
    /\ pc = "rs_open"
    /\ \/ \E stage \in SearchStages, e \in SnapEnvs :
            LET res == run_search_fails(stage, snaps, e)
            IN  /\ stage \in SnapStages => snap(snaps, stage, e).raised
                /\ snaps' = res.snaps
                /\ err' = res.err
                /\ view' = IF stage = "goto" THEN view ELSE "search"
                /\ pc' = "finally"
                /\ UNCHANGED searchVars
       \/ /\ SnapReturns(snaps, "10_search_page_loaded")
          /\ SnapReturns(snaps, "11_after_search_click")
          /\ SnapReturns(snaps, "12_results_page1")
          /\ \E p \in Portals :
            LET parsed == parse_grid_rows(p.ths, p.pages[1])
            IN  /\ snaps' = snaps \o <<"10_search_page_loaded",
                                       "11_after_search_click",
                                       "12_results_page1">>
                /\ portal' = p
                /\ cur_page' = 1
                /\ view' = "results"
                /\ headers' = parsed.headers
                /\ rows_all' = parsed.rows
                /\ sig1' = RowSig(parsed.rows)
                /\ pc' = "rs_next"
                /\ UNCHANGED <<err, calls, clicks>>
    /\ UNCHANGED <<envVars, issued_date, playwright, browser, auth_marker,
                   recordVars, otherVars>>

\* run_search, lines 273-280: try to advance the grid, and on success
\* append the rows of the page then shown
RunSearch_Next ==
    /\ pc = "rs_next"
    /\ calls < MaxCalls
    /\ LET r == click_next_if_available(portal.pages, portal.ths, cur_page,
                    PagerAt(portal, cur_page), portal.click_effect, sig1)
           after == IF MoreAdvances(r.result = "true", calls + 1)
                    THEN "rs_next" ELSE "rs_return"
       IN  /\ calls' = calls + 1
           /\ clicks' = IF r.clicked THEN clicks + 1 ELSE clicks
           /\ cur_page' = r.page
           /\ IF r.result = "raised"
              THEN /\ err' = Failure("next_click", snaps)
                   /\ pc' = "finally"
                   /\ UNCHANGED <<snaps, rows_all>>
              ELSE IF r.result = "true"
              THEN \E e \in SnapEnvs :
                     LET s13 == snap(snaps, "13_results_page2", e)
                     IN  /\ snaps' = s13.snaps
                         /\ IF s13.raised
                            THEN /\ err' = Failure("snap", snaps)
                                 /\ pc' = "finally"
                                 /\ UNCHANGED rows_all
                            ELSE /\ rows_all' = rows_all \o
                                      parse_grid_rows(portal.ths,
                                          portal.pages[r.page]).rows
                                 /\ pc' = after
                                 /\ UNCHANGED err
              ELSE /\ pc' = after
                   /\ UNCHANGED <<snaps, rows_all, err>>
    /\ UNCHANGED <<envVars, issued_date, playwright, browser, view,
                   auth_marker, portal, headers, sig1, recordVars, otherVars>>

\* run_search, line 282, and main, line 310: return headers and rows_all
RunSearch_Return ==
    /\ pc = "rs_return"
    /\ rows' = rows_all
    /\ pc' = "final_snap"
    /\ UNCHANGED <<envVars, issued_date, playwright, browser, view,
                   auth_marker, snaps, err, searchVars, out, clock, out_file,
                   otherVars>>

\* main, line 311
Main_FinalSnap ==
    /\ pc = "final_snap"
    /\ \E e \in SnapEnvs :
         LET r == snap(snaps, "99_final_state", e)
         IN  /\ snaps' = r.snaps
             /\ err' = IF r.raised THEN Failure("snap", snaps) ELSE err
    /\ pc' = "finally"
    /\ UNCHANGED <<envVars, issued_date, playwright, browser, view,
                   auth_marker, searchVars, recordVars, otherVars>>

\* main, lines 312-313: the finally block of the try
Main_Finally ==
    /\ pc = "finally"
    /\ browser' = "closed"
    /\ pc' = "exit_context"
    /\ UNCHANGED <<envVars, issued_date, playwright, view, auth_marker,
                   snaps, err, searchVars, recordVars, otherVars>>

\* main, line 304: leaving the `async with` block, normally or with the
\* exception in flight
Main_ExitContext ==
    /\ pc = "exit_context"
    /\ playwright' = "stopped"
    /\ pc' = IF err.kind = "none" THEN "transform" ELSE "raised"
    /\ UNCHANGED <<envVars, issued_date, browser, view, auth_marker, snaps,
                   err, searchVars, recordVars, otherVars>>

\* main, lines 317-348: one iteration of the loop over rows
Main_TransformRow ==
    /\ pc = "transform"
    /\ Len(out) < Len(rows)
    /\ out' = Append(out, BuildRecord(rows[Len(out) + 1], issued_date, clock))
    /\ clock' = clock + 1
    /\ UNCHANGED <<pc, envVars, issued_date, playwright, browser, view,
                   auth_marker, snaps, err, searchVars, rows, out_file,
                   otherVars>>

\* main, lines 350-354: write the records
Main_Write ==
    /\ pc = "transform"
    /\ Len(out) = Len(rows)
    /\ out_file' = [written |-> TRUE, records |-> out]
    /\ pc' = "done"
    /\ UNCHANGED <<envVars, issued_date, playwright, browser, view,
                   auth_marker, snaps, err, searchVars, rows, out, clock,
                   otherVars>>

Next ==
    \/ Main_Config \/ Main_Launch \/ Main_NewPage \/ Main_Login
    \/ RunSearch_Open \/ RunSearch_Next \/ RunSearch_Return
    \/ Main_FinalSnap \/ Main_Finally \/ Main_ExitContext
    \/ Main_TransformRow \/ Main_Write

Spec == Init /\ [][Next]_vars

\* ------------------------------------------------------------------------
\* Specification of the record transform: main after run_search returned
\* `rows` and the browser was closed (the portal is left out: only the rows
\* matter from here on)
\* ------------------------------------------------------------------------
InitTransform ==
    /\ pc = "transform"
    /\ ETRAKIT_USER = <<"u">> /\ ETRAKIT_PASS = <<"p">>
    /\ issued_date \in QueryDates
    /\ playwright = "stopped" /\ browser = "closed"
    /\ view = "results" /\ auth_marker = "positive"
    /\ snaps = <<"00_login_loaded", "01_after_login", "10_search_page_loaded",
                 "11_after_search_click", "12_results_page1", "99_final_state">>
    /\ err = NoErr /\ portal = NoPortal /\ cur_page = 1
    /\ headers = <<>> /\ sig1 = NoSig /\ calls = 1 /\ clicks = 0
    /\ rows \in TransformInputs
    /\ rows_all = rows
    /\ out = <<>> /\ clock = 0 /\ out_file = NoFile
    /\ ClassifyIdle /\ CsvIdle

NextTransform == Main_TransformRow \/ Main_Write

SpecTransform == InitTransform /\ [][NextTransform]_vars

\* ========================================================================
\* Properties
\* ========================================================================

\* The rule list of score_permit_type, numbered in source order; rule 13 is
\* the fallback, which matches every label
RuleMatches(i, pt) ==
    CASE i = 1  -> Contains(pt, P_DEMOLITION)
      [] i = 2  -> Contains(pt, P_NEW_CONSTRUCTION)
      [] i = 3  -> Contains(pt, P_COMMERCIAL_INTERIOR_UPFIT)
                   \/ (Contains(pt, P_UPFIT) /\ Contains(pt, P_COMMERCIAL))
      [] i = 4  -> Contains(pt, P_ADDITION)
      [] i = 5  -> Contains(pt, P_ACCESSORY_STRUCTURE)
                   \/ Contains(pt, P_ACESSORY_STRUCTURE)
      [] i = 6  -> Contains(pt, P_SWIMMING_POOL)
      [] i = 7  -> Contains(pt, P_EXTERIOR) /\ Contains(pt, P_ALTER)
      [] i = 8  -> Contains(pt, P_INTERIOR) /\ Contains(pt, P_ALTER)
      [] i = 9  -> Contains(pt, P_REROOF) \/ Contains(pt, P_RE_ROOF)
      [] i = 10 -> Contains(pt, P_MANUFACTURED_HOME)
                   /\ (Contains(pt, P_SET_UP) \/ Contains(pt, P_SETUP))
      [] i = 11 -> Contains(pt, P_FEASIBILITY)
      [] i = 12 -> Contains(pt, P_STANDAL) \/ Contains(pt, P_STANDALONE)
      [] OTHER  -> TRUE

RuleOutcome ==
    << Scored(98, "Demolition = high debris"),
       Scored(92, "New construction = high debris"),
       Scored(86, "Commercial upfit = tear-out debris"),
       Scored(84, "Addition = construction debris"),
       Scored(76, "Accessory structure = framing/debris"),
       Scored(78, "Pool install = excavation/packaging debris"),
       Scored(70, "Exterior alteration often creates debris (varies)"),
       Scored(66, "Interior alteration often creates debris (varies)"),
       Scored(60, "Reroof sometimes uses dumpster (contractor-dependent)"),
       Scored(52, "Manufactured setup may create packaging/debris"),
       Scored(10, "Feasibility = planning, no debris"),
       Scored(25, "Standalone trade permit often no dumpster"),
       Scored(40, "Unclassified permit type") >>

RuleCount == Len(RuleOutcome)

EarliestRule(pt) ==
    CHOOSE i \in 1..RuleCount :
        RuleMatches(i, pt) /\ \A j \in 1..(i - 1) : ~RuleMatches(j, pt)

\* The normalized upper-cased label of the classifier's argument
NormLabel == Upper(CollapseWs(Strip(c_in.chars)))

FirstMatchWins ==
    c_pc = "returned" => c_out = RuleOutcome[EarliestRule(NormLabel)]

DemolitionScores98 ==
    (c_pc = "returned" /\ Contains(NormLabel, P_DEMOLITION))
        => c_out.score = 98

\* C5 (as stated): the first matching rule wins; every label containing
\* both COMMERCIAL INTERIOR UPFIT and ADDITION scores 86; every label
\* containing DEMOLITION scores 98.
C5_Original ==
    /\ FirstMatchWins
    /\ DemolitionScores98
    /\ (c_pc = "returned"
          /\ Contains(NormLabel, P_COMMERCIAL_INTERIOR_UPFIT)
          /\ Contains(NormLabel, P_ADDITION))
        => c_out.score = 86

\* C5 (amended): the first matching rule wins; every label containing both
\* COMMERCIAL INTERIOR UPFIT and ADDITION, and neither DEMOLITION nor
\* NEW CONSTRUCTION, scores 86 and never 84; every label containing
\* DEMOLITION scores 98.
C5_FirstMatchingRuleWins ==
    /\ FirstMatchWins
    /\ DemolitionScores98
    /\ (c_pc = "returned"
          /\ Contains(NormLabel, P_COMMERCIAL_INTERIOR_UPFIT)
          /\ Contains(NormLabel, P_ADDITION)
          /\ ~Contains(NormLabel, P_DEMOLITION)
          /\ ~Contains(NormLabel, P_NEW_CONSTRUCTION))
        => c_out.score = 86

C5_Witness ==
    /\ c_pc = "returned"
    /\ Contains(NormLabel, P_COMMERCIAL_INTERIOR_UPFIT)
    /\ Contains(NormLabel, P_ADDITION)
    /\ c_out = Scored(86, "Commercial upfit = tear-out debris")

\* C10: score_permit_type returns a (score, reason) pair for every input,
\* None and the empty string included, and never raises; an input that
\* matches none of the twelve rules returns (40, "Unclassified permit type").
C10_ScoreIsTotal ==
    c_pc = "returned" =>
        /\ ~c_out.raised
        /\ c_out.score \in 0..100
        /\ c_out.reason # ""
        /\ (\A i \in 1..(RuleCount - 1) : ~RuleMatches(i, NormLabel))
              => c_out = Scored(40, "Unclassified permit type")

C10_Witness ==
    /\ c_pc = "returned"
    /\ c_in = None
    /\ c_out = Scored(40, "Unclassified permit type")

\* The rows of every page of the result set, in page order
RECURSIVE PagesRows(_, _)
PagesRows(p, k) ==
    IF k = 0 THEN <<>>
    ELSE PagesRows(p, k - 1) \o parse_grid_rows(p.ths, p.pages[k]).rows

\* A result set whose every page but the last has an enabled advance
\* control that shows the next page, and whose every page has a first row
\* different from the previous page's
WellBehavedPager ==
    /\ portal.pages # <<>>
    /\ FirstCandidate(portal.pager) = "enabled"
    /\ FirstCandidate(portal.last_pager) # "enabled"
    /\ portal.click_effect = "advance"
    /\ \A k \in 1..Len(portal.pages) : portal.pages[k] # <<>>
    /\ \A k \in 2..Len(portal.pages) :
          RowSig(parse_grid_rows(portal.ths, portal.pages[k]).rows)
            # RowSig(parse_grid_rows(portal.ths, portal.pages[k - 1]).rows)

\* A pager whose advance control is present and enabled on every page and
\* whose click never changes the grid
StalledPager ==
    /\ portal.pages # <<>>
    /\ FirstCandidate(portal.pager) = "enabled"
    /\ FirstCandidate(portal.last_pager) = "enabled"
    /\ portal.click_effect = "stall"

RunSearchPcs == {"rs_open", "rs_next", "rs_return"}

\* C1: when the portal shows neither the authenticated marker nor a known
\* failure phrase after the credentials are submitted, login raises and
\* main never goes on to run_search.
C1_LoginFailClosed ==
    auth_marker = "absent" => pc \notin RunSearchPcs

\* C2: for a well-behaved pager over N pages, run_search returns exactly
\* the rows of pages 1..N, concatenated.
C2_AllPagesCollected ==
    (pc = "rs_return" /\ WellBehavedPager)
        => rows_all = PagesRows(portal, Len(portal.pages))

\* C3: against a pager that is always enabled and never changes the grid,
\* run_search makes at most one advance attempt (one call, one click), and
\* the step that follows the attempt is the return of run_search: the
\* attempt is never repeated.
C3_StalledPagerTerminates ==
    /\ [](StalledPager => (calls <= 1 /\ clicks <= 1))
    /\ [][(pc = "rs_next" /\ StalledPager)
            => (pc' = "rs_return" /\ calls' = 1 /\ clicks' = 1)]_vars

C3_Witness ==
    pc = "rs_return" /\ StalledPager /\ clicks = 1 /\ Len(portal.pages) > 1

\* C4: the records written never contain two records with the same
\* fingerprint.
C4_NoDuplicateFingerprints ==
    \A i, j \in 1..Len(out) :
        i # j => out[i].fingerprint # out[j].fingerprint

\* C7: whenever the browser was launched, browser.close() has been executed
\* by the time main ends, normally or with an exception.
C7_BrowserAlwaysClosed ==
    (pc \in {"done", "raised"} /\ browser # "none") => browser = "closed"

\* The fatal failures of a run named by C8, by the kind of the exception
FatalKinds == {"login_control", "no_dropdown", "select_issued", "no_grid"}

\* C8: every fatal failure of the run is followed, on its failure path and
\* before the exception propagates, by a snap call.
C8_FailureAlwaysCaptured ==
    err.kind \in FatalKinds => Len(snaps) > err.snaps_before

\* The five identity fields of a record, in the order of the fingerprint
IdentityFields(rec) ==
    << rec.issued_date.chars, rec.project.permit_no.chars,
       rec.project.address.chars, rec.project.permit_type.chars,
       rec.project.status.chars >>

\* s1|s2|s3|s4|s5
BarJoin(t) == t[1] \o <<"|">> \o t[2] \o <<"|">> \o t[3] \o <<"|">> \o t[4]
                \o <<"|">> \o t[5]

ExampleFields ==
    << <<"0","1","/","0","2","/","2","0","2","4">>, <<"P","-","1","0","0">>, <<"1","0","0"," ","M","a","i","n"," ","S","t">>, <<"D","E","M","O","L","I","T","I","O","N">>, <<"I","S","S","U","E","D">> >>

ExampleHashed == <<"0","1","/","0","2","/","2","0","2","4","|","P","-","1","0","0","|","1","0","0"," ","M","A","I","N"," ","S","T","|","D","E","M","O","L","I","T","I","O","N","|","I","S","S","U","E","D">>

SameUpToCase(t, u) == \A k \in 1..5 : Upper(t[k]) = Upper(u[k])

\* C9: the fingerprint of every record is the SHA-256 of the upper-cased
\* string issuedDate|permitId|address|category|status of that record; two
\* records whose five fields differ only in letter case have the same
\* fingerprint, whatever their parcel id and scrape time; the example row
\* hashes 01/02/2024|P-100|100 MAIN ST|DEMOLITION|ISSUED.
C9_FingerprintOfFiveFields ==
    /\ \A k \in 1..Len(out) :
          /\ out[k].fingerprint = Sha256(Upper(BarJoin(IdentityFields(out[k]))))
          /\ IdentityFields(out[k]) = ExampleFields
                => out[k].fingerprint = Sha256(ExampleHashed)
    /\ \A i, j \in 1..Len(out) :
          SameUpToCase(IdentityFields(out[i]), IdentityFields(out[j]))
            => out[i].fingerprint = out[j].fingerprint

C9_Witness ==
    /\ pc = "done"
    /\ Len(out) = 2
    /\ IdentityFields(out[1]) = ExampleFields
    /\ IdentityFields(out[2]) # ExampleFields
    /\ SameUpToCase(IdentityFields(out[1]), IdentityFields(out[2]))
    /\ out[1].project.site_apn # out[2].project.site_apn
    /\ out[1].scraped_at # out[2].scraped_at
    /\ out[1].fingerprint = out[2].fingerprint
    /\ out_file.records = out

\* The threshold ladder: A iff score >= 85, B iff 70 <= score < 85,
\* C iff 55 <= score < 70, D iff score < 55
OnLadder(score, t) ==
    /\ t \in Tiers
    /\ t = "A" <=> score >= 85
    /\ t = "B" <=> (70 <= score /\ score < 85)
    /\ t = "C" <=> (55 <= score /\ score < 70)
    /\ t = "D" <=> score < 55

\* C6: tier is the threshold ladder on every score in 0..100, and every row
\* scored by main carries a score in 0..100, the score score_permit_type
\* returns for its Permit Type, and the tier of that score.
C6_TierLadder ==
    /\ \A s \in 0..100 : OnLadder(s, tier(s))
    /\ \A k \in 1..Len(out_rows) :
          LET r == out_rows[k]
          IN  /\ r.dumpster_score \in 0..100
              /\ r.dumpster_score = score_permit_type(r.pt).score
              /\ OnLadder(r.dumpster_score, r.dumpster_tier)
    /\ csv_pc = "done" => csv_file = out_rows

C6_Witness ==
    /\ csv_pc = "done"
    /\ \E k \in 1..Len(csv_file) :
          csv_file[k].dumpster_score = 70 /\ csv_file[k].dumpster_tier = "B"
    /\ \E k \in 1..Len(csv_file) :
          csv_file[k].dumpster_score = 98 /\ csv_file[k].dumpster_tier = "A"
    /\ \E k \in 1..Len(csv_file) :
          csv_file[k].dumpster_score = 52 /\ csv_file[k].dumpster_tier = "D"

\* ------------------------------------------------------------------------
\* Stalled advance
\* ------------------------------------------------------------------------
\* The rows of page k of the result set, as parse_grid_rows reads them
RowsOfPage(k) == parse_grid_rows(portal.ths, portal.pages[k]).rows

\* One advance attempt was made, its click went through, and then the wait
\* for the new grid failed or the grid came back, showing page `shown`,
\* with the same first row as page 1
StalledOn(shown, n_calls, n_clicks, e) ==
    /\ n_calls = 1 /\ n_clicks = 1
    /\ e.kind # "next_click"
    /\ \/ portal.click_effect = "timeout"
       \/ /\ portal.click_effect \in {"advance", "stall"}
          /\ RowsOfPage(shown) # <<>>
          /\ RowSig(RowsOfPage(shown)) = sig1

AdvanceStalled == StalledOn(cur_page, calls, clicks, err)

\* The statements of main and run_search after the advance attempt
AfterAdvancePcs ==
    {"rs_return", "final_snap", "finally", "exit_context", "transform",
     "done", "raised"}

Blank(v) == \A i \in 1..Len(v) : v[i] \in Whitespace

\* C12: in a run whose username or password is absent or blank, main raises
\* the configuration error as its first step: the playwright context is
\* never entered, no browser is launched, no page is navigated, no snapshot
\* is taken and no output file is written.
C12_CredentialsFailFast ==
    (Blank(ETRAKIT_USER) \/ Blank(ETRAKIT_PASS)) =>
        /\ pc \in {"start", "raised"}
        /\ (pc = "raised") => (err.kind = "config")
        /\ playwright = "none" /\ browser = "none" /\ view = "blank"
        /\ auth_marker = "unset" /\ snaps = <<>>
        /\ portal = NoPortal /\ calls = 0 /\ clicks = 0
        /\ rows = <<>> /\ out = <<>> /\ out_file = NoFile

\* A run with a username and a whitespace-only password, after main raised
C12_Witness ==
    /\ pc = "raised" /\ err.kind = "config"
    /\ ~Blank(ETRAKIT_USER) /\ Blank(ETRAKIT_PASS) /\ ETRAKIT_PASS # <<>>
    /\ browser = "none" /\ ~out_file.written

\* ------------------------------------------------------------------------
\* Resolution of the advance control
\* ------------------------------------------------------------------------
\* Some strategy of the pager of page 1 has a visible, enabled match
UsableMatch == \E k \in 1..3 : PagerAt(portal, 1)[k] = "enabled"

\* C13: when resolving the advance control on page 1, a strategy whose
\* match is hidden or disabled is passed over, so that whenever any of the
\* three strategies has a visible, enabled match, that match is resolved and
\* activated.
C13_FallbackPastDisabled ==
    (calls >= 1 /\ UsableMatch) => clicks >= 1

\* ------------------------------------------------------------------------
\* Optional fields of a record
\* ------------------------------------------------------------------------
\* Whether row r has one of the columns main reads a field from
HasColumn(r, keys) == \E k \in keys : k \in DOMAIN r

\* C14: in every output record, each of permit number, permit type, status,
\* parcel id and address is null when the row has none of the columns the
\* field is read from.
C14_MissingColumnsAreNull ==
    \A i \in 1..Len(out) :
        LET r == rows[i]
            p == out[i].project
        IN  /\ ~HasColumn(r, {K_PERMIT_NO, K_Permit_No, K_PERMIT})
                => p.permit_no = None
            /\ ~HasColumn(r, {K_Permit_Type, K_PERMIT_TYPE})
                => p.permit_type = None
            /\ ~HasColumn(r, {K_STATUS}) => p.status = None
            /\ ~HasColumn(r, {K_SITE_APN}) => p.site_apn = None
            /\ ~HasColumn(r, {K_SITE_ADDR, K_SITE_ADDR_SP, K_SITE_ADDR_TRAIL})
                => p.address = None

\* ------------------------------------------------------------------------
\* Rows with fewer cells than headers
\* ------------------------------------------------------------------------
\* The smaller of two numbers
Min(a, b) == IF a <= b THEN a ELSE b

\* C15: every cell j of a row of page 1 is filed under header j, also when
\* the row has fewer cells than there are headers; and the record built
\* from such a row carries the permit number of the cell under PERMIT_NO.
C15_ShortRowKeepsLeadingCells ==
    (cur_page >= 1 /\ headers # <<>>) =>
        \A i \in 1..Len(portal.pages[1]) :
            LET raw == portal.pages[1][i]
            IN  /\ \A j \in 1..Min(Len(raw), Len(headers)) :
                      /\ headers[j] \in DOMAIN rows_all[i]
                      /\ rows_all[i][headers[j]] = NormCell(raw[j])
                /\ (i <= Len(out) /\ headers[1] = K_PERMIT_NO /\ Len(raw) >= 1)
                      => out[i].project.permit_no = Str(NormCell(raw[1]))

\* ------------------------------------------------------------------------
\* Noise in the label
\* ------------------------------------------------------------------------
\* Whitespace added before and after a label
Paddings ==
    { [lead |-> <<>>, trail |-> <<" ">>],
      [lead |-> <<" ", " ">>, trail |-> <<" ", " ">>],
      [lead |-> <<"\t">>, trail |-> <<"\n", " ">>] }

\* The label s with whitespace added around it and its letter case changed
Noisy(s, pad, mode) == Str(pad.lead \o ApplyCase(mode, s) \o pad.trail)

\* Score and tier of a label
ScoreAndTier(pt) ==
    LET r == score_permit_type(pt)
    IN  [score |-> r.score, tier |-> tier(r.score)]

\* C16: score_permit_type and tier give the same score and tier for a label,
\* for the label with leading or trailing whitespace added, and for the label
\* with its letters changed to upper or to lower case; DEMOLITION and
\* "  demolition  " both give score 98, tier A.
C16_NoiseInvariant ==
    /\ (c_pc = "returned" /\ ~c_in.isNone) =>
          \A pad \in Paddings, mode \in CaseModes :
              ScoreAndTier(Noisy(c_in.chars, pad, mode))
                = [score |-> c_out.score, tier |-> tier(c_out.score)]
    /\ (c_pc = "returned" /\ ~c_in.isNone
          /\ Upper(Strip(c_in.chars)) = P_DEMOLITION)
        => (c_out.score = 98 /\ tier(c_out.score) = "A")

\* The call score_permit_type("  demolition  ") after it returned
C16_Witness ==
    /\ c_pc = "returned"
    /\ c_in = Str(<<" ", " ", "d","e","m","o","l","i","t","i","o","n", " ", " ">>)
    /\ c_out.score = 98

\* ------------------------------------------------------------------------
\* The scored CSV
\* ------------------------------------------------------------------------
\* parse_permits main is past its scoring loop and its write
CsvFinished == csv_pc \in {"done", "raised"}

\* C18: once main has scored the rows and written the output, the rows
\* written are the input rows, each once and each extended with its score,
\* tier and reason, in non-increasing order of score with equal scores in
\* input order; and the four tier counts sum to the number of input rows.
C18_AllRowsWrittenInOrder ==
    CsvFinished =>
        /\ Len(csv_file) = Len(csv_rows)
        /\ \A k \in 1..Len(csv_rows) :
              \E j \in 1..Len(csv_file) : csv_file[j] = ScoredRow(csv_rows[k])
        /\ \A i, j \in 1..Len(csv_file) :
              i < j =>
                /\ csv_file[i].dumpster_score >= csv_file[j].dumpster_score
                /\ (csv_file[i].dumpster_score = csv_file[j].dumpster_score)
                      => csv_file[i].line < csv_file[j].line
        /\ tier_counts["A"] + tier_counts["B"] + tier_counts["C"]
              + tier_counts["D"] = Len(csv_rows)

\* ------------------------------------------------------------------------
\* The diagnostics sink
\* ------------------------------------------------------------------------
\* C17: no call of snap ever raises, whichever of its steps fails: the
\* exception in flight is never one that came out of snap, neither on the
\* normal path nor in place of the error of a failure path.
C17_SnapIsBestEffort == err.kind # "snap"

\* ------------------------------------------------------------------------
\* Sensitivity of the hashed string
\* ------------------------------------------------------------------------
\* C19: two records whose (issuedDate, permitId, address, category, status)
\* differ in at least one field after upper-casing have different hashed
\* strings, also when a field contains the delimiter.
C19_HashedStringSeparatesTuples ==
    \A i, j \in 1..Len(out) :
        ~SameUpToCase(IdentityFields(out[i]), IdentityFields(out[j]))
            => out[i].fingerprint.sha256 # out[j].fingerprint.sha256

====
